---- MODULE Spec2Model ----
(***************************************************************************)
(* A model of tinyclparser::TinyCLParser (src/tinyCLParser.h): the parser  *)
(* object's three fields, its constructor, setMainArgs, parse<T> for the   *)
(* four specialised types and usage, together with the conversion traits.  *)
(*                                                                         *)
(* Text is a sequence of one-character strings, so that atoi, atof,        *)
(* operator<< and find_last_of are computed character by character.        *)
(* An argument vector is the one the program's entry point delivers        *)
(* (line 141: "takes as inputs main function int argc and char** argv"):   *)
(* argc tokens followed by the null pointer argv[argc]; or no vector at    *)
(* all, the constructor's default argv = 0x0.                              *)
(***************************************************************************)
EXTENDS Integers, Sequences, FiniteSets

VARIABLES
    m_argc,     \* TinyCLParser::m_argc
    m_argv,     \* TinyCLParser::m_argv: [null |-> is the pointer 0x0, tok |-> the tokens]
    m_vecOpt,   \* TinyCLParser::m_vecOpt: sequence of ClOption
    pc,         \* "running", or "aborted" once a call has killed the process
    build,      \* what an undefined operation does in this build of the program
    calls,      \* history: the parse calls issued since construction / setMainArgs
    last        \* observation of the most recent call: its inputs, outcome and output

vars == <<m_argc, m_argv, m_vecOpt, pc, build, calls, last>>

(***************************************************************************)
(* Bounds of the model.                                                    *)
(***************************************************************************)
MaxArgc == 3
MaxMainArgc == 4
MaxOpts == 2
MaxPathLen == 4

(***************************************************************************)
(* Text.                                                                   *)
(***************************************************************************)
Digits == <<"0", "1", "2", "3", "4", "5", "6", "7", "8", "9">>

IsDigit(c) == \E d \in 1..10 : Digits[d] = c

DigitVal(c) == (CHOOSE d \in 1..10 : Digits[d] = c) - 1

IsSpace(c) == c \in {" ", "\t", "\n", "\r", "\f"}

\* Text over an alphabet, of length at most n.
TextUpTo(alphabet, n) == UNION {[1..k -> alphabet] : k \in 0..n}

(***************************************************************************)
(* Values of the four supported types, in one record shape:                *)
(*   int    n                     double  n / 10^e (no trailing zero digit)*)
(*   string s                     bool    b                                *)
(***************************************************************************)
IntV(n) == [t |-> "int", n |-> n, e |-> 0, s |-> <<>>, b |-> FALSE]
DblV(n, e) == [t |-> "double", n |-> n, e |-> e, s |-> <<>>, b |-> FALSE]
StrV(s) == [t |-> "string", n |-> 0, e |-> 0, s |-> s, b |-> FALSE]
BoolV(b) == [t |-> "bool", n |-> 0, e |-> 0, s |-> <<>>, b |-> b]
NoV == [t |-> "none", n |-> 0, e |-> 0, s |-> <<>>, b |-> FALSE]

\* A double as mantissa and count of fraction digits, trailing zeros dropped.
RECURSIVE Normalize(_, _)
Normalize(n, e) ==
    IF e > 0 /\ n % 10 = 0 THEN Normalize(n \div 10, e - 1) ELSE DblV(n, e)

(***************************************************************************)
(* atoi / atof of the C library, on a non-null C string: leading white     *)
(* space, an optional sign, then the longest run of digits (atof: with an  *)
(* optional fraction); no digits gives 0.  The exponent, hexadecimal,      *)
(* "inf" and "nan" forms of atof need letters no token of the model has.   *)
(***************************************************************************)
RECURSIVE SkipSpace(_, _)
SkipSpace(str, i) ==
    IF i <= Len(str) /\ IsSpace(str[i]) THEN SkipSpace(str, i + 1) ELSE i

\* Index after the run of digits that starts at i.
RECURSIVE DigitsEnd(_, _)
DigitsEnd(str, i) ==
    IF i <= Len(str) /\ IsDigit(str[i]) THEN DigitsEnd(str, i + 1) ELSE i

\* Value of the digits str[i..j-1], continuing from acc.
RECURSIVE DigitsValue(_, _, _, _)
DigitsValue(str, i, j, acc) ==
    IF i >= j THEN acc
    ELSE DigitsValue(str, i + 1, j, 10 * acc + DigitVal(str[i]))

Atoi(str) ==
    LET i == SkipSpace(str, 1)
        neg == i <= Len(str) /\ str[i] = "-"
        j == IF i <= Len(str) /\ str[i] \in {"-", "+"} THEN i + 1 ELSE i
        k == DigitsEnd(str, j)
        mag == DigitsValue(str, j, k, 0)
    IN  IF neg THEN 0 - mag ELSE mag

Atof(str) ==
    LET i == SkipSpace(str, 1)
        neg == i <= Len(str) /\ str[i] = "-"
        j == IF i <= Len(str) /\ str[i] \in {"-", "+"} THEN i + 1 ELSE i
        k == DigitsEnd(str, j)
        dot == k <= Len(str) /\ str[k] = "."
        f == IF dot THEN DigitsEnd(str, k + 1) ELSE k
        \* "." alone, with no digit on either side, is no number
        frac == IF dot /\ (k > j \/ f > k + 1) THEN f - (k + 1) ELSE 0
        ip == DigitsValue(str, j, k, 0)
        mag == IF frac > 0 THEN DigitsValue(str, k + 1, f, ip) ELSE ip
    IN  Normalize(IF neg THEN 0 - mag ELSE mag, frac)

(***************************************************************************)
(* operator<< of an ostringstream in its default state: integers in        *)
(* decimal, bool as 1 / 0 (no boolalpha), double as %g with precision 6    *)
(* (plain decimal for the few-digit values of the model), text as is.      *)
(***************************************************************************)
RECURSIVE NatText(_)
NatText(n) ==
    IF n < 10 THEN <<Digits[n + 1]>>
    ELSE NatText(n \div 10) \o <<Digits[(n % 10) + 1]>>

IntText(n) == IF n < 0 THEN <<"-">> \o NatText(0 - n) ELSE NatText(n)

RECURSIVE Pow10(_)
Pow10(e) == IF e = 0 THEN 1 ELSE 10 * Pow10(e - 1)

\* The e fraction digits of n / 10^e, leading zeros kept.
RECURSIVE FracText(_, _)
FracText(n, e) ==
    IF e = 0 THEN <<>>
    ELSE FracText(n \div 10, e - 1) \o <<Digits[(n % 10) + 1]>>

DblText(n, e) ==
    LET mag == IF n < 0 THEN 0 - n ELSE n
        body == NatText(mag \div Pow10(e))
                \o (IF e > 0 THEN <<".">> \o FracText(mag % Pow10(e), e) ELSE <<>>)
    IN  IF n < 0 THEN <<"-">> \o body ELSE body

StreamOut(v) ==
    CASE v.t = "int" -> IntText(v.n)
      [] v.t = "double" -> DblText(v.n, v.e)
      [] v.t = "string" -> v.s
      [] v.t = "bool" -> IF v.b THEN <<"1">> ELSE <<"0">>

(***************************************************************************)
(* Inputs of the model.                                                    *)
(***************************************************************************)
tA == <<"-", "a">>
tB == <<"-", "b">>
t425 == <<"4", "2", ".", "5">>
tProg == <<"p">>
tUsrBinTool == <<"/", "u", "s", "r", "/", "b", "i", "n", "/", "t", "o", "o", "l">>
tTool == <<"t", "o", "o", "l">>
tCToolsToolExe ==
    <<"C", ":", "\\", "t", "o", "o", "l", "s", "\\", "t", "o", "o", "l", ".", "e", "x", "e">>
tToolExe == <<"t", "o", "o", "l", ".", "e", "x", "e">>

\* Tokens after the program path, and program paths.
Tokens == {tA, tB, t425}
Argv0s == {tProg, tA}

\* Flags asked for, descriptions, titles and defaults of the calls.
Flags == {tA, tB}
Descriptions == {<<"D">>}
Titles == {<<"T">>}
Defaults ==
    {IntV(4), DblV(25, 1), StrV(<<"d">>), BoolV(FALSE), BoolV(TRUE)}

\* What main() receives: argc tokens, then the null pointer argv[argc].
MainVector(tok) == [null |-> FALSE, tok |-> tok]
\* The constructor's default argv = 0x0.
NoVector == [null |-> TRUE, tok |-> <<>>]

VectorsUpTo(n) ==
    {NoVector, MainVector(<<>>)}
    \cup {MainVector(<<a0>> \o rest) : a0 \in Argv0s, rest \in TextUpTo(Tokens, n - 1)}

\* The vectors a parser is constructed with and re-armed with, and the longer
\* ones of the runs that construct it once.
ArgVectors == VectorsUpTo(MaxArgc)
MainVectors == VectorsUpTo(MaxMainArgc)

\* Program paths for the program-name derivation.
Separators == {"/", "\\"}
Paths ==
    TextUpTo(Separators \cup {"t"}, MaxPathLen) \cup {tUsrBinTool, tCToolsToolExe}

(***************************************************************************)
(* A char* read from the argument vector.                                  *)
(***************************************************************************)
NullPtr == [null |-> TRUE, str |-> <<>>]
Ptr(str) == [null |-> FALSE, str |-> str]

\* m_argv[i], for 0 <= i <= m_argc on a vector that is there: argv[argc] is
\* the null pointer that ends main's vector.
ArgAt(i) == IF i < Len(m_argv.tok) THEN Ptr(m_argv.tok[i + 1]) ELSE NullPtr

(***************************************************************************)
(* Outcomes of a call.  The behaviour of atoi, atof and std::string's      *)
(* constructor on a null pointer, and of a read through a null argv, is    *)
(* undefined.  What happens is a matter of the build (compiler, library,   *)
(* platform), chosen when the program starts:                              *)
(*   "abort"  every such operation kills the process (a null dereference); *)
(*   "throw"  std::string's constructor throws std::logic_error, as        *)
(*            libstdc++'s does, and the others kill the process;           *)
(*   "value"  every such operation goes on with some value (a C runtime    *)
(*            that reports the invalid parameter and returns).             *)
(***************************************************************************)
Builds == {"abort", "throw", "value"}

Ok(v) == [kind |-> "ok", v |-> v]
Thrown == [kind |-> "throw", v |-> NoV]
Aborted == [kind |-> "abort", v |-> NoV]

\* The value such a call goes on with: some value of the type.
Junk(T) ==
    CASE T = "int" -> IntV(0 - 1)
      [] T = "double" -> DblV(5, 1)
      [] T = "string" -> StrV(<<"?">>)

Undefined(T) ==
    CASE build = "abort" -> {Aborted}
      [] build = "throw" -> {Aborted}
      [] build = "value" -> {Ok(Junk(T))}

UndefinedString ==
    CASE build = "abort" -> {Aborted}
      [] build = "throw" -> {Thrown}
      [] build = "value" -> {Ok(Junk("string"))}

(***************************************************************************)
(* CastingTraits<T>::cast, lines 106-135.                                  *)
(***************************************************************************)
CastInt(p) == IF p.null THEN Undefined("int") ELSE {Ok(IntV(Atoi(p.str)))}

CastDouble(p) == IF p.null THEN Undefined("double") ELSE {Ok(Atof(p.str))}

\* std::string(const char*): a null pointer is not a C string.
StdString(p) == IF p.null THEN UndefinedString ELSE {Ok(StrV(p.str))}

CastString(p) == StdString(p)

\* Mutation: a conversion that looks at the text, return str && atoi(str).
CastBoolValue(p) == {Ok(BoolV((~p.null) /\ Atoi(p.str) # 0))}

\* The parameter is never looked at.
CastBool(p) == {Ok(BoolV(TRUE))}

Cast(T, p) ==
    CASE T = "int" -> CastInt(p)
      [] T = "double" -> CastDouble(p)
      [] T = "string" -> CastString(p)
      [] T = "bool" -> CastBool(p)

(***************************************************************************)
(* InitializationTraits<T>::init, lines 52-82.                             *)
(***************************************************************************)
InitializationTraits(T) ==
    CASE T = "int" -> IntV(0)
      [] T = "double" -> DblV(0, 0)
      [] T = "string" -> StrV(<<>>)
      [] T = "bool" -> BoolV(FALSE)

(***************************************************************************)
(* ClOption::parseOpt, lines 200-207: the option's name, its description   *)
(* and its default value written through an ostringstream.                 *)
(***************************************************************************)
ParseOpt(opt, details, def_val) ==
    [m_opt |-> opt, m_details |-> details, m_def_val |-> StreamOut(def_val)]

(***************************************************************************)
(* TinyCLParser::parse, lines 160-175.                                     *)
(***************************************************************************)
\* Mutation: T arg; in place of T arg(def_val).
ArgInitZero(def_val) == InitializationTraits(def_val.t)

\* Line 162, T arg(def_val): the value returned when the loop finds nothing.
ArgInit(def_val) == def_val

\* The for loop of lines 164-171 from index i on: the index at which it
\* breaks, or m_argc when it runs to its end.
RECURSIVE ScanFrom(_, _)
ScanFrom(i, opt) ==
    IF i < m_argc
    THEN IF m_argv.tok[i + 1] = opt THEN i ELSE ScanFrom(i + 1, opt)
    ELSE m_argc

\* Mutation: the loop starts at the program path, i = 0.
ParseLoopFromZero(opt) == ScanFrom(0, opt)

\* Mutation: the loop takes the tokens as (flag, value) pairs, i += 2.
RECURSIVE ScanPairs(_, _)
ScanPairs(i, opt) ==
    IF i < m_argc
    THEN IF m_argv.tok[i + 1] = opt THEN i ELSE ScanPairs(i + 2, opt)
    ELSE m_argc

ParseLoopByPairs(opt) == ScanPairs(1, opt)

\* Mutation: the loop goes on from where the options recorded so far end.
ParseLoopResume(opt) == ScanFrom(1 + Len(m_vecOpt), opt)

ParseLoop(opt) == ScanFrom(1, opt)

\* The indices of m_argv the call reads: those the loop compares, and i + 1.
ParseReads(hit) == IF hit < m_argc THEN 1..(hit + 1) ELSE 1..(m_argc - 1)

Observation(op) ==
    [op |-> op, opt |-> <<>>, def |-> NoV, details |-> <<>>, title |-> <<>>,
     kind |-> "ok", ret |-> NoV, reads |-> {}, out |-> <<>>]

\* The entry of the history for a call of parse and its outcome.
Call(opt, def_val, details, o) ==
    [opt |-> opt, def |-> def_val, details |-> details, kind |-> o.kind, ret |-> o.v]

Parse(opt, def_val, details) ==
    /\ pc = "running"
    /\ Len(calls) < MaxOpts
    /\ LET hit == ParseLoop(opt)
       IN  \E o \in (IF hit < m_argc
                     THEN Cast(def_val.t, ArgAt(hit + 1))
                     ELSE {Ok(ArgInit(def_val))}) :
             \* an exception or a fault at line 168 leaves before line 172
             /\ m_vecOpt' = IF o.kind = "ok"
                            THEN Append(m_vecOpt, ParseOpt(opt, details, def_val))
                            ELSE m_vecOpt
             /\ pc' = IF o.kind = "abort" THEN "aborted" ELSE "running"
             /\ calls' = Append(calls, Call(opt, def_val, details, o))
             /\ last' = [Observation("parse") EXCEPT
                            !.opt = opt, !.def = def_val, !.details = details,
                            !.kind = o.kind, !.ret = o.v, !.reads = ParseReads(hit)]
    /\ UNCHANGED <<m_argc, m_argv, build>>

(***************************************************************************)
(* TinyCLParser::usage, lines 177-193.                                     *)
(***************************************************************************)
\* size_t arithmetic is modulo 2^64; the model checker's integers have 32
\* bits, so the modulus is 2^30 here: beyond every length of the model, and
\* npos + 1 wraps to 0 all the same.
SizeMod == 1073741824
Npos == SizeMod - 1

\* std::string::find_last_of: the 0-based position of the last character of
\* str that is in chars, or npos.
FindLastOf(str, chars) ==
    IF \E i \in 1..Len(str) : str[i] \in chars
    THEN (CHOOSE i \in 1..Len(str) :
            /\ str[i] \in chars
            /\ \A j \in (i + 1)..Len(str) : str[j] \notin chars) - 1
    ELSE Npos

\* std::string::substr(pos), for pos <= size().
Substr(str, pos) == SubSeq(str, pos + 1, Len(str))

\* Mutation: find_last_of("/"), the backslash forgotten.
ProgramNameSlashOnly(pname) ==
    LET found == FindLastOf(pname, {"/"})
    IN  Substr(pname, (found + 1) % SizeMod)

\* Lines 180-181.
ProgramName(pname) ==
    LET found == FindLastOf(pname, Separators)
    IN  Substr(pname, (found + 1) % SizeMod)

\* std::string pname(m_argv[0]), line 179.
ReadArgv0 == IF m_argv.null THEN Undefined("string") ELSE StdString(ArgAt(0))

\* Lines 186-187: " [" << m_opt << "] " for every option, in one line.
RECURSIVE Synopsis(_)
Synopsis(opts) ==
    IF opts = <<>> THEN <<>>
    ELSE <<" ", "[">> \o Head(opts).m_opt \o <<"]", " ">> \o Synopsis(Tail(opts))

\* Lines 191-192: one line per option.
OptionLine(o) == <<"\t", " ", "[">> \o o.m_opt \o <<"]", "\t", "\t", " ">> \o o.m_details

\* The lines written to std::cout, each ended by std::endl.
UsageText(title, pname) ==
    <<title, ProgramName(pname) \o Synopsis(m_vecOpt)>>
    \o [i \in 1..Len(m_vecOpt) |-> OptionLine(m_vecOpt[i])]

Usage(title) ==
    /\ pc = "running"
    /\ \E o \in ReadArgv0 :
        /\ pc' = IF o.kind = "abort" THEN "aborted" ELSE "running"
        /\ last' = [Observation("usage") EXCEPT
                       !.title = title, !.kind = o.kind, !.reads = {0},
                       !.out = IF o.kind = "ok" THEN UsageText(title, o.v.s) ELSE <<>>]
    /\ UNCHANGED <<m_argc, m_argv, m_vecOpt, build, calls>>

(***************************************************************************)
(* The constructor, line 156, and setMainArgs, line 158.                   *)
(***************************************************************************)
Construct(argv) ==
    /\ m_argc = Len(argv.tok)
    /\ m_argv = argv
    /\ m_vecOpt = <<>>
    /\ pc = "running"
    /\ build \in Builds
    /\ calls = <<>>
    /\ last = Observation("construct")

SetMainArgs(argv) ==
    /\ pc = "running"
    /\ m_argc' = Len(argv.tok)
    /\ m_argv' = argv
    /\ m_vecOpt' = <<>>
    /\ calls' = <<>>
    /\ last' = Observation("setMainArgs")
    /\ UNCHANGED <<pc, build>>

Init == \E argv \in ArgVectors : Construct(argv)

Next ==
    \/ \E argv \in ArgVectors : SetMainArgs(argv)
    \/ \E opt \in Flags, def_val \in Defaults, details \in Descriptions :
           Parse(opt, def_val, details)
    \/ \E title \in Titles : Usage(title)

Spec == Init /\ [][Next]_vars

\* The use main() makes of the parser: constructed once with the program's
\* arguments, then asked for options and for the usage text.
InitMain == \E argv \in MainVectors : Construct(argv)

NextMain ==
    \/ \E opt \in Flags, def_val \in Defaults, details \in Descriptions :
           Parse(opt, def_val, details)
    \/ \E title \in Titles : Usage(title)

SpecMain == InitMain /\ [][NextMain]_vars

\* The program-name derivation alone, over every program path of Paths.
InitPaths == \E path \in Paths : Construct(MainVector(<<path>>))

NextPaths == \E title \in Titles : Usage(title)

SpecPaths == InitPaths /\ [][NextPaths]_vars

(***************************************************************************)
(* The claims.  A claim about a call is stated on the observation of the   *)
(* most recent call, against the argument vector the parser holds (no call *)
(* of parse or usage changes it).  Positions below are those of the        *)
(* sequence m_argv.tok: position i is argument i - 1.                      *)
(***************************************************************************)
\* The flag is among the arguments after the program path.
Present(opt) == \E i \in 2..Len(m_argv.tok) : m_argv.tok[i] = opt

\* The position of its first occurrence there.
FirstAt(opt) ==
    CHOOSE i \in 2..Len(m_argv.tok) :
        /\ m_argv.tok[i] = opt
        /\ \A j \in 2..(i - 1) : m_argv.tok[j] # opt

\* A token follows that occurrence.
HasValue(opt) == Present(opt) /\ FirstAt(opt) < Len(m_argv.tok)

ValueOf(opt) == m_argv.tok[FirstAt(opt) + 1]

\* The numeric interpretation of the tokens: "42.5" is 42 as an integer and
\* 42.5 as a floating-point number; "-a" and "-b" hold no number.
IntegerOf(tok) == IF tok = t425 THEN 42 ELSE 0
RealOf(tok) == IF tok = t425 THEN DblV(425, 1) ELSE DblV(0, 0)

Converted(T, tok) ==
    CASE T = "int" -> IntV(IntegerOf(tok))
      [] T = "double" -> RealOf(tok)
      [] T = "string" -> StrV(tok)

\* C1: a parse call for a flag that no argument at index 1..count-1 equals
\* returns exactly the default it was given, for each of the four types and
\* for every argument vector, the empty and the absent one included.
C1_AbsentFlagReturnsDefault ==
    (last.op = "parse" /\ ~Present(last.opt))
        => (last.kind = "ok" /\ last.ret = last.def)

C1_Witness ==
    /\ last.op = "parse"
    /\ m_argv.tok = <<tA, tB>>
    /\ last.opt = tA
    /\ last.def = StrV(<<"d">>)
    /\ last.ret = StrV(<<"d">>)

\* C2: when the flag occurs at an index >= 1 and a token follows its first
\* such occurrence, parse returns the conversion of that token: the token
\* itself for text, its numeric interpretation for int and double; later
\* occurrences and an equal program path at index 0 play no part.
C2_FirstOccurrenceValueConverted ==
    (last.op = "parse" /\ last.def.t \in {"int", "double", "string"} /\ HasValue(last.opt))
        => (last.kind = "ok" /\ last.ret = Converted(last.def.t, ValueOf(last.opt)))

C2_Witness ==
    /\ last.op = "parse"
    /\ m_argv.tok = <<tA, tA, t425, tA>>
    /\ last.opt = tA
    /\ last.def = IntV(4)
    /\ last.ret = IntV(42)

\* C3: parse<bool> returns true whenever the flag is present at an index
\* >= 1, whatever the default and whatever follows the flag (a flag, a
\* value, nothing); it returns false only when the flag is absent and the
\* default is false.
C3_BoolIsPresence ==
    (last.op = "parse" /\ last.def.t = "bool")
        => /\ last.kind = "ok"
           /\ Present(last.opt) => last.ret = BoolV(TRUE)
           /\ last.ret = BoolV(FALSE) => (~Present(last.opt) /\ last.def = BoolV(FALSE))

C3_Witness ==
    /\ last.op = "parse"
    /\ m_argv.tok = <<tProg, tA, t425, tB>>
    /\ last.opt = tB
    /\ last.def = BoolV(FALSE)
    /\ last.ret = BoolV(TRUE)

\* The rendering of the defaults of the model as text.
TextOf(def_val) ==
    CASE def_val = IntV(4) -> <<"4">>
      [] def_val = DblV(25, 1) -> <<"2", ".", "5">>
      [] def_val = StrV(<<"d">>) -> <<"d">>
      [] def_val = BoolV(FALSE) -> <<"0">>
      [] def_val = BoolV(TRUE) -> <<"1">>

DescriptorOf(call) ==
    [m_opt |-> call.opt, m_details |-> call.details, m_def_val |-> TextOf(call.def)]

StartsWith(text, prefix) ==
    Len(prefix) <= Len(text) /\ SubSeq(text, 1, Len(prefix)) = prefix

EndsWith(text, suffix) ==
    /\ Len(suffix) <= Len(text)
    /\ SubSeq(text, Len(text) - Len(suffix) + 1, Len(text)) = suffix

\* " [flag] " for every call of the history, in call order.
RECURSIVE BracketedFlags(_)
BracketedFlags(cs) ==
    IF cs = <<>> THEN <<>>
    ELSE <<" ", "[">> \o Head(cs).opt \o <<"]", " ">> \o BracketedFlags(Tail(cs))

\* C4: while the program runs, the descriptors are, in call order, the
\* (flag, description, text of the default) of every parse call issued since
\* construction or the last setMainArgs, one per call, and a usage text
\* lists the flags of those calls in that order in both of its blocks.
C4_DescriptorsAreTheCalls ==
    pc = "running" =>
        /\ Len(m_vecOpt) = Len(calls)
        /\ \A i \in 1..Len(calls) : m_vecOpt[i] = DescriptorOf(calls[i])
        /\ (last.op = "usage" /\ last.kind = "ok") =>
              /\ Len(last.out) = 2 + Len(calls)
              /\ EndsWith(last.out[2], BracketedFlags(calls))
              /\ \A i \in 1..Len(calls) :
                    StartsWith(last.out[2 + i],
                               <<"\t", " ", "[">> \o calls[i].opt \o <<"]">>)

\* C5: setMainArgs empties the descriptors, so that after it and k parse
\* calls there are exactly k descriptors, and a usage text has exactly k
\* option lines.
C5_ReinitThenKCallsKDescriptors ==
    /\ last.op = "setMainArgs" => (m_vecOpt = <<>> /\ m_argc = Len(m_argv.tok))
    /\ pc = "running" => Len(m_vecOpt) = Len(calls)
    /\ (last.op = "usage" /\ last.kind = "ok") => Len(last.out) = 2 + Len(calls)

\* C6: when the first occurrence of the flag is the last token, parse ends
\* in the error "missing value for flag" and reads no argument at an index
\* outside 0..count-1.
C6_MissingValueIsAnError ==
    (last.op = "parse" /\ Present(last.opt) /\ FirstAt(last.opt) = Len(m_argv.tok))
        => (last.kind = "missing value" /\ last.reads \subseteq 0..(m_argc - 1))

\* The program name of a path: the part after its last separator, the whole
\* path when it has none.
IsProgramName(path, name) ==
    \E k \in 0..Len(path) :
        /\ name = SubSeq(path, k + 1, Len(path))
        /\ \A i \in (k + 1)..Len(path) : path[i] \notin Separators
        /\ k = 0 \/ path[k] \in Separators

\* C7: usage writes, as the program name, the part of argument 0 after the
\* last '/' or '\': "tool" for "/usr/bin/tool", "tool.exe" for
\* "C:\tools\tool.exe", argument 0 itself when it has no separator, nothing
\* when it ends with one.
C7_ProgramNameAfterLastSeparator ==
    (last.op = "usage" /\ m_argc = 1 /\ m_vecOpt = <<>>) =>
        LET path == m_argv.tok[1]
            name == last.out[2]
        IN  /\ last.kind = "ok"
            /\ IsProgramName(path, name)
            /\ path = tUsrBinTool => name = tTool
            /\ path = tCToolsToolExe => name = tToolExe
            /\ (\A i \in 1..Len(path) : path[i] \notin Separators) => name = path
            /\ (path # <<>> /\ path[Len(path)] \in Separators) => name = <<>>

C7_Witness ==
    /\ last.op = "usage"
    /\ m_argv.tok = <<tCToolsToolExe>>
    /\ last.out = <<<<"T">>, tToolExe>>

\* C8: a parse call leaves the argument count, the argument vector and the
\* descriptors recorded before it as they are, adding at most one descriptor
\* at the end; usage changes no field of the parser; and what a parse call
\* returns is what every earlier call with the same flag and default on the
\* same argument vector returned.
C8_Step ==
    /\ last'.op = "parse" =>
          /\ m_argc' = m_argc /\ m_argv' = m_argv
          /\ Len(m_vecOpt') \in {Len(m_vecOpt), Len(m_vecOpt) + 1}
          /\ SubSeq(m_vecOpt', 1, Len(m_vecOpt)) = m_vecOpt
          /\ \A i \in 1..Len(calls) :
                (calls[i].opt = last'.opt /\ calls[i].def = last'.def)
                    => (calls[i].kind = last'.kind /\ calls[i].ret = last'.ret)
    /\ last'.op = "usage" => UNCHANGED <<m_argc, m_argv, m_vecOpt>>

C9_ValuePositionsAreCandidates ==
    (last.op = "parse" /\ last.def.t = "string") =>
        /\ (HasValue(last.opt) /\ m_argv.tok[FirstAt(last.opt) - 1] \in Flags
                /\ FirstAt(last.opt) > 2)
              => (last.kind = "ok" /\ last.ret = StrV(ValueOf(last.opt)))
        /\ (HasValue(last.opt) /\ ValueOf(last.opt) \in Flags)
              => (last.kind = "ok" /\ last.ret.s \in Flags)
        /\ m_argv.tok = <<tProg, tA, tB, t425>>
              => /\ last.opt = tA => last.ret = StrV(tB)
                 /\ last.opt = tB => last.ret = StrV(t425)

C9_Witness ==
    /\ last.op = "parse"
    /\ m_argv.tok = <<tProg, tA, tB, t425>>
    /\ last.opt = tB
    /\ last.def = StrV(<<"d">>)
    /\ last.ret = StrV(t425)

\* C10: usage is defined in every state the constructor, setMainArgs and
\* parse lead to: it writes its two blocks, and reads no argument the vector
\* does not hold, also when the vector is empty or absent.
C10_UsageAlwaysDefined ==
    last.op = "usage" =>
        /\ last.kind = "ok"
        /\ Len(last.out) = 2 + Len(m_vecOpt)
        /\ last.reads \subseteq 0..(m_argc - 1)

====
